---- MODULE Spec2Model ----
(***************************************************************************)
(* Model of usau_rankings/rating_engine.py: the USAU rating solver.        *)
(*                                                                         *)
(* Numbers.  Python floats are modelled in fixed point: a rating or a game *)
(* value is an integer number of thousandths of a rating point             *)
(* (RatingScale), a weight is an integer number of hundredths              *)
(* (WeightScale).  Dates are day numbers.  Python's 0-based game indices   *)
(* are 1-based sequence indices here.  A function that can raise returns a *)
(* record whose err field is NoError or the exception raised.              *)
(***************************************************************************)
EXTENDS Integers, Sequences, FiniteSets, TLC

VARIABLES
    games,                      \* solve_ratings argument: list of Game
    season_start,               \* solve_ratings argument (day number)
    season_end,                 \* solve_ratings argument (day number)
    convergence_threshold,      \* keyword argument, in thousandths
    max_iters,                  \* keyword argument
    blowout_min_other_results,  \* keyword argument
    teams,                      \* local `teams` of solve_ratings
    ratings,                    \* local `ratings`: the current snapshot
    ignored_games,              \* local `ignored_games` / `ignored`
    max_change,                 \* local `max_change` of the last iteration
    iters,                      \* number of completed passes of the for loop
    pc,                         \* position of the call
    err,                        \* exception raised out of the call
    result,                     \* value returned by the call
    call,                       \* a direct call of another function of the
                                \* package: its name and arguments
    retry                       \* locals of _get_with_retries: attempts made,
                                \* last_exc and the sleeps done

vars == <<games, season_start, season_end, convergence_threshold, max_iters,
          blowout_min_other_results, teams, ratings, ignored_games,
          max_change, iters, pc, err, result, call, retry>>

inputs == <<games, season_start, season_end, convergence_threshold, max_iters,
            blowout_min_other_results>>

----------------------------------------------------------------------------
(* Fixed point *)

RatingScale == 1000
WeightScale == 100

DEFAULT_RATING == 1000 * RatingScale

Abs(x) == IF x < 0 THEN 0 - x ELSE x
Min2(a, b) == IF a < b THEN a ELSE b
Max2(a, b) == IF a > b THEN a ELSE b
SetMax(S) == CHOOSE x \in S : \A y \in S : y <= x
SetMin(S) == CHOOSE x \in S : \A y \in S : x <= y

\* floor(sqrt(n)) for 0 <= n <= WeightScale^2
ISqrt(n) == CHOOSE r \in 0..WeightScale : r * r <= n /\ n < (r + 1) * (r + 1)

----------------------------------------------------------------------------
(* Exceptions *)

NoError == [type |-> "", name |-> "", text |-> ""]

\* ValueError(f"{name} {text}"); name is "" when the message names no
\* field or value.
ValueError(name, text) == [type |-> "ValueError", name |-> name, text |-> text]

\* TypeError(f"{name} {text}")
TypeError(name, text) == [type |-> "TypeError", name |-> name, text |-> text]

\* The value of `call` while solve_ratings or _ignored_blowouts runs.
NoCall == [fn |-> ""]

\* The value of `retry` before the first attempt: last_exc is None.
NoRetry == [attempt |-> 0, last_exc |-> NoError, slept |-> <<>>]

----------------------------------------------------------------------------
(* Game *)

Game(d, a, b, sa, sb) ==
    [date |-> d, team_a |-> a, team_b |-> b, score_a |-> sa, score_b |-> sb]

TeamGameRating(r, w) == [game_rating |-> r, weight |-> w]

----------------------------------------------------------------------------
(* Scores and game values *)

\* Scores are modelled as integers, so the TypeError branch cannot be taken.
_validate_score(name, value) ==
    IF value < 0 THEN ValueError(name, "must be >= 0") ELSE NoError

\* 475 * sin(t * 0.4 * pi) / sin(0.4 * pi) in thousandths, for
\* t = 2 * num / den < 1, rounded to the nearest thousandth.
SinTermTable ==
    <<0, 1>> :> 0 @@ <<0, 2>> :> 0 @@ <<0, 3>> :> 0 @@ <<1, 3>> :> 371160 @@
    <<0, 4>> :> 0 @@ <<1, 4>> :> 293566 @@ <<0, 5>> :> 0 @@
    <<1, 5>> :> 240609 @@ <<2, 5>> :> 421695 @@ <<0, 6>> :> 0 @@
    <<1, 6>> :> 203142 @@ <<2, 6>> :> 371160 @@ <<0, 7>> :> 0 @@
    <<1, 7>> :> 175492 @@ <<2, 7>> :> 328604 @@ <<3, 7>> :> 439809 @@
    <<0, 8>> :> 0 @@ <<1, 8>> :> 154337 @@ <<2, 8>> :> 293566 @@
    <<3, 8>> :> 404059 @@ <<0, 9>> :> 0 @@ <<1, 9>> :> 137666 @@
    <<2, 9>> :> 264665 @@ <<3, 9>> :> 371160 @@ <<4, 9>> :> 448898 @@
    <<0, 10>> :> 0 @@ <<1, 10>> :> 124207 @@ <<2, 10>> :> 240609 @@
    <<3, 10>> :> 341893 @@ <<4, 10>> :> 421695 @@ <<0, 11>> :> 0 @@
    <<1, 11>> :> 113123 @@ <<2, 11>> :> 220365 @@ <<3, 11>> :> 316155 @@
    <<4, 11>> :> 395511 @@ <<5, 11>> :> 454311 @@ <<0, 12>> :> 0 @@
    <<1, 12>> :> 103840 @@ <<2, 12>> :> 203142 @@ <<3, 12>> :> 293566 @@
    <<4, 12>> :> 371160 @@ <<5, 12>> :> 432532 @@ <<0, 13>> :> 0 @@
    <<1, 13>> :> 95957 @@ <<2, 13>> :> 188338 @@ <<3, 13>> :> 273702 @@
    <<4, 13>> :> 348868 @@ <<5, 13>> :> 411035 @@ <<6, 13>> :> 457887 @@
    <<0, 14>> :> 0 @@ <<1, 14>> :> 89179 @@ <<2, 14>> :> 175492 @@
    <<3, 14>> :> 256165 @@ <<4, 14>> :> 328604 @@ <<5, 14>> :> 390481 @@
    <<6, 14>> :> 439809 @@ <<0, 15>> :> 0 @@ <<1, 15>> :> 83292 @@
    <<2, 15>> :> 164251 @@ <<3, 15>> :> 240609 @@ <<4, 15>> :> 310229 @@
    <<5, 15>> :> 371160 @@ <<6, 15>> :> 421695 @@ <<7, 15>> :> 460420 @@
    <<0, 16>> :> 0 @@ <<1, 16>> :> 78130 @@ <<2, 16>> :> 154337 @@
    <<3, 16>> :> 226743 @@ <<4, 16>> :> 293566 @@ <<5, 16>> :> 353161 @@
    <<6, 16>> :> 404059 @@ <<7, 16>> :> 445008 @@ <<0, 17>> :> 0 @@
    <<1, 17>> :> 73569 @@ <<2, 17>> :> 145533 @@ <<3, 17>> :> 214322 @@
    <<4, 17>> :> 278435 @@ <<5, 17>> :> 336474 @@ <<6, 17>> :> 387171 @@
    <<7, 17>> :> 429422 @@ <<8, 17>> :> 462305

\* Lines 56-59 for validated scores: r = loser_score / (winner_score - 1),
\* t = min(1.0, (1.0 - r) / 0.5) = min(1, 2 * (ws - 1 - ls) / (ws - 1)).
\* Mutant of line 56: r = loser_score / winner_score.
GameValueNoMinusOne(winner_score, loser_score) ==
    LET den == winner_score
        num == winner_score - loser_score
    IN  IF 2 * num >= den
        THEN 125 * RatingScale + 475 * RatingScale
        ELSE 125 * RatingScale + SinTermTable[<<num, den>>]

\* Mutant of line 58: the sine term is scaled by 450.
GameValueLowAmplitude(winner_score, loser_score) ==
    LET den == winner_score - 1
        num == winner_score - 1 - loser_score
    IN  IF 2 * num >= den
        THEN 125 * RatingScale + 450 * RatingScale
        ELSE 125 * RatingScale + (SinTermTable[<<num, den>>] * 450) \div 475

GameValue(winner_score, loser_score) ==
    LET den == winner_score - 1
        num == winner_score - 1 - loser_score
    IN  IF 2 * num >= den
        THEN 125 * RatingScale + 475 * RatingScale
        ELSE 125 * RatingScale + SinTermTable[<<num, den>>]

game_rating_value(winner_score, loser_score) ==
    LET e1 == _validate_score("winner_score", winner_score)
        e2 == _validate_score("loser_score", loser_score)
    IN  IF e1 # NoError THEN [err |-> e1, value |-> 0]
        ELSE IF e2 # NoError THEN [err |-> e2, value |-> 0]
        ELSE IF winner_score <= loser_score
        THEN [err |-> ValueError("winner_score", "must be > loser_score"),
              value |-> 0]
        ELSE IF winner_score < 2
        THEN [err |-> ValueError("winner_score", "must be >= 2"), value |-> 0]
        ELSE [err |-> NoError, value |-> GameValue(winner_score, loser_score)]

\* Ratings are always floats inside solve_ratings, so _validate_rating
\* never raises there.
\* Mutant of line 74: the value is added to the loser's game rating and
\* taken from the winner's.
calculate_game_rating_swapped(winner_rating, loser_rating, winner_score, loser_score) ==
    LET v == game_rating_value(winner_score, loser_score)
    IN  IF v.err # NoError
        THEN [err |-> v.err, winner_game_rating |-> 0, loser_game_rating |-> 0]
        ELSE [err |-> NoError,
              winner_game_rating |-> loser_rating - v.value,
              loser_game_rating |-> winner_rating + v.value]

calculate_game_rating(winner_rating, loser_rating, winner_score, loser_score) ==
    LET v == game_rating_value(winner_score, loser_score)
    IN  IF v.err # NoError
        THEN [err |-> v.err, winner_game_rating |-> 0, loser_game_rating |-> 0]
        ELSE [err |-> NoError,
              winner_game_rating |-> loser_rating + v.value,
              loser_game_rating |-> winner_rating - v.value]

----------------------------------------------------------------------------
(* Weights *)

\* Mutant of line 88: the loser's score is taken as it is.
score_weight_unadjusted(winner_score, loser_score) ==
    LET e1 == _validate_score("winner_score", winner_score)
        e2 == _validate_score("loser_score", loser_score)
        root == ISqrt(((2 * winner_score + 2 * loser_score)
                       * WeightScale * WeightScale) \div (2 * 19))
    IN  IF e1 # NoError THEN [err |-> e1, weight |-> 0]
        ELSE IF e2 # NoError THEN [err |-> e2, weight |-> 0]
        ELSE IF winner_score <= loser_score
        THEN [err |-> ValueError("winner_score", "must be > loser_score"),
              weight |-> 0]
        ELSE IF winner_score >= 13 \/ (winner_score + loser_score) >= 19
        THEN [err |-> NoError, weight |-> WeightScale]
        ELSE [err |-> NoError, weight |-> Min2(WeightScale, root)]

score_weight(winner_score, loser_score) ==
    LET e1 == _validate_score("winner_score", winner_score)
        e2 == _validate_score("loser_score", loser_score)
        \* 2 * adjusted_loser = max(2 * loser_score, winner_score - 1)
        adjusted2 == Max2(2 * loser_score, winner_score - 1)
        root == ISqrt(((2 * winner_score + adjusted2) * WeightScale * WeightScale)
                      \div (2 * 19))
    IN  IF e1 # NoError THEN [err |-> e1, weight |-> 0]
        ELSE IF e2 # NoError THEN [err |-> e2, weight |-> 0]
        ELSE IF winner_score <= loser_score
        THEN [err |-> ValueError("winner_score", "must be > loser_score"),
              weight |-> 0]
        ELSE IF winner_score >= 13 \/ (winner_score + loser_score) >= 19
        THEN [err |-> NoError, weight |-> WeightScale]
        ELSE [err |-> NoError, weight |-> Min2(WeightScale, root)]

\* 0.5 * (2 ** (1 / m)) ** k in hundredths, for 0 <= k <= m <= 5.
HalfPow2 ==
    <<0, 1>> :> 50 @@ <<1, 1>> :> 100 @@
    <<0, 2>> :> 50 @@ <<1, 2>> :> 71 @@ <<2, 2>> :> 100 @@
    <<0, 3>> :> 50 @@ <<1, 3>> :> 63 @@ <<2, 3>> :> 79 @@ <<3, 3>> :> 100 @@
    <<0, 4>> :> 50 @@ <<1, 4>> :> 59 @@ <<2, 4>> :> 71 @@ <<3, 4>> :> 84 @@
    <<4, 4>> :> 100 @@
    <<0, 5>> :> 50 @@ <<1, 5>> :> 57 @@ <<2, 5>> :> 66 @@ <<3, 5>> :> 76 @@
    <<4, 5>> :> 87 @@ <<5, 5>> :> 100

\* Mutant of line 95: the comparison is reversed.
SeasonInvalidReversed(start, end) == start < end

SeasonInvalid(start, end) == end < start

\* Mutant of lines 99-100: a date outside the season is rejected, not
\* clamped.
date_weight_rejecting(game_date, start, end) ==
    LET num_weeks == 1 + ((end - start) \div 7)
        week_index == Max2(0, Min2((game_date - start) \div 7, num_weeks - 1))
        weight == IF num_weeks > 1
                  THEN HalfPow2[<<week_index, num_weeks - 1>>]
                  ELSE WeightScale \div 2
    IN  IF SeasonInvalid(start, end)
        THEN [err |-> ValueError("season_end",
                                 "must be on or after season_start"),
              weight |-> 0]
        ELSE IF game_date < start \/ game_date > end
        THEN [err |-> ValueError("game_date", "must be inside the season"),
              weight |-> 0]
        ELSE [err |-> NoError,
              weight |-> Max2(WeightScale \div 2, Min2(weight, WeightScale))]

\* Mutant of line 103: the multiplier is the num_weeks-th root of 2.
date_weight_short_root(game_date, start, end) ==
    LET num_weeks == 1 + ((end - start) \div 7)
        week_index == Max2(0, Min2((game_date - start) \div 7, num_weeks - 1))
        weight == IF num_weeks > 1
                  THEN HalfPow2[<<week_index, num_weeks>>]
                  ELSE WeightScale \div 2
    IN  IF SeasonInvalid(start, end)
        THEN [err |-> ValueError("season_end",
                                 "must be on or after season_start"),
              weight |-> 0]
        ELSE [err |-> NoError,
              weight |-> Max2(WeightScale \div 2, Min2(weight, WeightScale))]

date_weight(game_date, start, end) ==
    LET num_weeks == 1 + ((end - start) \div 7)
        week_index == Max2(0, Min2((game_date - start) \div 7, num_weeks - 1))
        weight == IF num_weeks > 1
                  THEN HalfPow2[<<week_index, num_weeks - 1>>]
                  ELSE WeightScale \div 2
    IN  IF SeasonInvalid(start, end)
        THEN [err |-> ValueError("season_end",
                                 "must be on or after season_start"),
              weight |-> 0]
        ELSE [err |-> NoError,
              weight |-> Max2(WeightScale \div 2, Min2(weight, WeightScale))]

RECURSIVE SumWeight(_), SumWeighted(_)
SumWeight(team_games) ==
    IF team_games = <<>> THEN 0
    ELSE Head(team_games).weight + SumWeight(Tail(team_games))
SumWeighted(team_games) ==
    IF team_games = <<>> THEN 0
    ELSE Head(team_games).game_rating * Head(team_games).weight
         + SumWeighted(Tail(team_games))

\* Mutant of lines 123-124: a zero total weight gives 0.0.
weighted_team_rating_zero(team_games) ==
    LET total_weight == SumWeight(team_games)
        weighted_sum == SumWeighted(team_games)
    IN  IF total_weight = 0 THEN 0
        ELSE weighted_sum \div total_weight

weighted_team_rating(team_games) ==
    LET total_weight == SumWeight(team_games)
        weighted_sum == SumWeighted(team_games)
    IN  IF total_weight = 0 THEN DEFAULT_RATING
        ELSE weighted_sum \div total_weight

----------------------------------------------------------------------------
(* Teams, winner and loser *)

_iter_teams(gs) ==
    {gs[i].team_a : i \in 1..Len(gs)} \cup {gs[i].team_b : i \in 1..Len(gs)}

\* Mutant of line 137: the tie check is missing.
IsTieUnchecked(game) == FALSE

IsTie(game) == game.score_a = game.score_b

_winner_loser(game) ==
    IF IsTie(game)
    THEN [err |-> ValueError("", "Games cannot end in a tie"),
          winner |-> "", loser |-> "", winner_score |-> 0, loser_score |-> 0]
    ELSE IF game.score_a > game.score_b
    THEN [err |-> NoError, winner |-> game.team_a, loser |-> game.team_b,
          winner_score |-> game.score_a, loser_score |-> game.score_b]
    ELSE [err |-> NoError, winner |-> game.team_b, loser |-> game.team_a,
          winner_score |-> game.score_b, loser_score |-> game.score_a]

----------------------------------------------------------------------------
(* The 600-point blowout rule *)

\* Mutant of line 162: the rating gap is not looked at.
RatingGapTooSmallNever(rating_gap) == FALSE

\* Mutant of line 162: a gap of exactly 600 is large enough.
RatingGapTooSmallBelow(rating_gap) == rating_gap < 600 * RatingScale

RatingGapTooSmall(rating_gap) == rating_gap <= 600 * RatingScale

IsBlowout(winner_score, loser_score) == winner_score > (2 * loser_score + 1)

\* Lines 165-170: the other, not ignored games the winner is involved in.
NonIgnoredForWinner(gs, idx, ignored, winner) ==
    Cardinality({other_idx \in 1..Len(gs) :
                    /\ ~(other_idx = idx \/ other_idx \in ignored)
                    /\ winner \in {gs[other_idx].team_a, gs[other_idx].team_b}})

\* Mutants of line 172: a strict comparison, and an inverted one.
EnoughOtherResultsStrict(non_ignored_for_winner, min_other_results) ==
    non_ignored_for_winner > min_other_results

EnoughOtherResultsInverted(non_ignored_for_winner, min_other_results) ==
    non_ignored_for_winner <= min_other_results

EnoughOtherResults(non_ignored_for_winner, min_other_results) ==
    non_ignored_for_winner >= min_other_results

\* Lines 155-174: the for loop from position idx on, with the values of
\* `ignored` and `changed` at that position.
RECURSIVE ScanFrom(_, _, _, _, _, _)
ScanFrom(gs, rt, min_other_results, idx, ignored, changed) ==
    IF idx > Len(gs)
    THEN [err |-> NoError, ignored |-> ignored, changed |-> changed]
    ELSE IF idx \in ignored
    THEN ScanFrom(gs, rt, min_other_results, idx + 1, ignored, changed)
    ELSE LET wl == _winner_loser(gs[idx])
         IN  IF wl.err # NoError
             THEN [err |-> wl.err, ignored |-> ignored, changed |-> changed]
             ELSE IF \/ RatingGapTooSmall(rt[wl.winner] - rt[wl.loser])
                     \/ ~IsBlowout(wl.winner_score, wl.loser_score)
             THEN ScanFrom(gs, rt, min_other_results, idx + 1, ignored, changed)
             ELSE IF EnoughOtherResults(
                         NonIgnoredForWinner(gs, idx, ignored, wl.winner),
                         min_other_results)
             THEN ScanFrom(gs, rt, min_other_results, idx + 1,
                           ignored \cup {idx}, TRUE)
             ELSE ScanFrom(gs, rt, min_other_results, idx + 1, ignored, changed)

\* Mutant of line 154: `changed` is not reset once a game has been marked.
ScanPassChangedKept(gs, rt, min_other_results, ignored) ==
    ScanFrom(gs, rt, min_other_results, 1, ignored, ignored # {})

\* One pass of the `while True` loop body.
ScanPass(gs, rt, min_other_results, ignored) ==
    ScanFrom(gs, rt, min_other_results, 1, ignored, FALSE)

\* Lines 153-177 started with the given value of `ignored`.
RECURSIVE ScanLoop(_, _, _, _)
ScanLoop(gs, rt, min_other_results, ignored) ==
    LET pass == ScanPass(gs, rt, min_other_results, ignored)
    IN  IF pass.err # NoError THEN [err |-> pass.err, ignored |-> {}]
        ELSE IF ~pass.changed THEN [err |-> NoError, ignored |-> pass.ignored]
        ELSE ScanLoop(gs, rt, min_other_results, pass.ignored)

\* Mutant of line 151: the set starts from the one of the pass before.
_ignored_blowouts_persistent(gs, rt, min_other_results) ==
    ScanLoop(gs, rt, min_other_results, ignored_games)

_ignored_blowouts(gs, rt, min_other_results) ==
    ScanLoop(gs, rt, min_other_results, {})

----------------------------------------------------------------------------
(* One pass of the for loop of solve_ratings *)

\* Lines 205-215 for one game.
GameContribution(game, rt, start, end) ==
    LET wl == _winner_loser(game)
        none == [winner |-> "", loser |-> "", winner_game_rating |-> 0,
                 loser_game_rating |-> 0, combined_weight |-> 0]
    IN  IF wl.err # NoError THEN [err |-> wl.err] @@ none
        ELSE
        LET gr == calculate_game_rating(rt[wl.winner], rt[wl.loser],
                                        wl.winner_score, wl.loser_score)
            dw == date_weight(game.date, start, end)
            sw == score_weight(wl.winner_score, wl.loser_score)
        IN  IF gr.err # NoError THEN [err |-> gr.err] @@ none
            ELSE IF dw.err # NoError THEN [err |-> dw.err] @@ none
            ELSE IF sw.err # NoError THEN [err |-> sw.err] @@ none
            ELSE [err |-> NoError, winner |-> wl.winner, loser |-> wl.loser,
                  winner_game_rating |-> gr.winner_game_rating,
                  loser_game_rating |-> gr.loser_game_rating,
                  combined_weight |-> (dw.weight * sw.weight) \div WeightScale]

\* per_team_games[team] after the games at positions idx.. have been scanned.
RECURSIVE PerTeamFrom(_, _, _, _, _, _, _)
PerTeamFrom(gs, rt, start, end, ignored, team, idx) ==
    IF idx > Len(gs) THEN <<>>
    ELSE LET rest == PerTeamFrom(gs, rt, start, end, ignored, team, idx + 1)
             c == GameContribution(gs[idx], rt, start, end)
         IN  IF idx \in ignored THEN rest
             ELSE (IF c.winner = team
                   THEN <<TeamGameRating(c.winner_game_rating,
                                         c.combined_weight)>>
                   ELSE <<>>)
                  \o (IF c.loser = team
                      THEN <<TeamGameRating(c.loser_game_rating,
                                            c.combined_weight)>>
                      ELSE <<>>)
                  \o rest

MaxChange(tms, old, new) ==
    IF tms = {} THEN 0 ELSE SetMax({Abs(new[t] - old[t]) : t \in tms})

\* Lines 198-228: the body of the for loop on the snapshot rt.
Iteration(gs, tms, rt, start, end, min_other_results) ==
    LET ib == _ignored_blowouts(gs, rt, min_other_results)
        none == [ignored |-> {}, ratings |-> rt, max_change |-> 0]
    IN  IF ib.err # NoError THEN [err |-> ib.err] @@ none
        ELSE
        LET bad == {i \in 1..Len(gs) \ ib.ignored :
                        GameContribution(gs[i], rt, start, end).err # NoError}
        IN  IF bad # {}
            THEN [err |-> GameContribution(gs[SetMin(bad)], rt, start, end).err]
                 @@ none
            ELSE
            LET updated_ratings ==
                    [team \in tms |->
                        weighted_team_rating(
                            PerTeamFrom(gs, rt, start, end, ib.ignored, team, 1))]
            IN  [err |-> NoError, ignored |-> ib.ignored,
                 ratings |-> updated_ratings,
                 max_change |-> MaxChange(tms, rt, updated_ratings)]

\* Mutant of line 191: only negative values are rejected.
MaxItersInvalidNegative(m) == m < 0

MaxItersInvalid(m) == m < 1

\* Mutant of line 197: one pass too many.
LoopContinuesOneMore(done_iters, m) == done_iters <= m

LoopContinues(done_iters, m) == done_iters < m

\* Mutant of line 230: a change equal to the threshold counts as converged.
ConvergedOrEqual(change, threshold) == change <= threshold

Converged(change, threshold) == change < threshold

----------------------------------------------------------------------------
(* Inputs of the model *)

MaxGames == 3
MaxIters == 4

GamePool ==
    { Game(0, "A", "B", 15, 0),
      Game(1, "A", "C", 15, 0),
      Game(2, "D", "C", 14, 15),
      Game(8, "D", "B", 8, 1),
      Game(3, "A", "B", 10, 10),
      Game(4, "B", "A", 1, 0),
      Game(5, "C", "A", 3, -1) }

\* tests/test_rating_engine.py, lines 150-157 (day 0 is 2024-01-01).
BlowoutScenario ==
    << Game(0, "A", "B", 15, 5),
       Game(1, "A", "C", 15, 12),
       Game(2, "A", "D", 15, 12),
       Game(3, "A", "E", 15, 12),
       Game(4, "A", "F", 15, 12),
       Game(5, "A", "G", 15, 12) >>

GameLists ==
    UNION {[1..n -> GamePool] : n \in 0..MaxGames} \cup {BlowoutScenario}

\* <<season_start, season_end>>: the tests' January season and an invalid
\* range.
Seasons == {<<0, 30>>, <<30, 0>>}

\* 0, the default 0.01 and a threshold every change is below.
Thresholds == {0, RatingScale \div 100, 1000 * RatingScale * RatingScale}

MinOtherChoices == {1, 5, 99}

----------------------------------------------------------------------------
(* solve_ratings *)

Init ==
    /\ games \in GameLists
    /\ \E s \in Seasons : season_start = s[1] /\ season_end = s[2]
    /\ convergence_threshold \in Thresholds
    /\ max_iters \in -1..MaxIters
    /\ blowout_min_other_results \in MinOtherChoices
    /\ teams = {}
    /\ ratings = <<>>
    /\ ignored_games = {}
    /\ max_change = 0
    /\ iters = 0
    /\ pc = "start"
    /\ err = NoError
    /\ result = <<>>
    /\ call = NoCall
    /\ retry = NoRetry

\* Lines 191-192.
RaiseMaxIters ==
    /\ pc = "start"
    /\ MaxItersInvalid(max_iters)
    /\ pc' = "raised"
    /\ err' = ValueError("max_iters", "must be >= 1")
    /\ UNCHANGED <<call, retry, inputs, teams, ratings, ignored_games, max_change, iters,
                   result>>

\* Lines 194-195.
Begin ==
    /\ pc = "start"
    /\ ~MaxItersInvalid(max_iters)
    /\ teams' = _iter_teams(games)
    /\ ratings' = [team \in _iter_teams(games) |-> DEFAULT_RATING]
    /\ pc' = "loop"
    /\ UNCHANGED <<call, retry, inputs, ignored_games, max_change, iters, err, result>>

\* Lines 197-231: one pass of the for loop that completes.
Iterate ==
    /\ pc = "loop"
    /\ LoopContinues(iters, max_iters)
    /\ \E it \in {Iteration(games, teams, ratings, season_start, season_end,
                              blowout_min_other_results)} :
           /\ it.err = NoError
           /\ ignored_games' = it.ignored
           /\ max_change' = it.max_change
           /\ ratings' = it.ratings
           /\ iters' = iters + 1
           /\ pc' = IF Converged(it.max_change, convergence_threshold)
                    THEN "return" ELSE "loop"
    /\ UNCHANGED <<call, retry, inputs, teams, err, result>>

\* Lines 197-218: a pass of the for loop in which a callee raises.
IterateRaise ==
    /\ pc = "loop"
    /\ LoopContinues(iters, max_iters)
    /\ \E it \in {Iteration(games, teams, ratings, season_start, season_end,
                              blowout_min_other_results)} :
           /\ it.err # NoError
           /\ err' = it.err
           /\ pc' = "raised"
    /\ UNCHANGED <<call, retry, inputs, teams, ratings, ignored_games, max_change, iters,
                   result>>

\* Line 197: range(max_iters) is exhausted.
Exhausted ==
    /\ pc = "loop"
    /\ ~LoopContinues(iters, max_iters)
    /\ pc' = "return"
    /\ UNCHANGED <<call, retry, inputs, teams, ratings, ignored_games, max_change, iters,
                   err, result>>

\* Line 233.
Return ==
    /\ pc = "return"
    /\ result' = ratings
    /\ pc' = "done"
    /\ UNCHANGED <<call, retry, inputs, teams, ratings, ignored_games, max_change, iters,
                   err>>

Next ==
    \/ RaiseMaxIters
    \/ Begin
    \/ Iterate
    \/ IterateRaise
    \/ Exhausted
    \/ Return

Spec == Init /\ [][Next]_vars

----------------------------------------------------------------------------
(* _ignored_blowouts called on its own, on any ratings snapshot *)

BlowoutPool ==
    { Game(0, "A", "B", 15, 0),
      Game(1, "A", "C", 0, 15),
      Game(2, "C", "B", 15, 5),
      Game(3, "A", "B", 15, 7),
      Game(4, "A", "C", 3, 3) }

BlowoutLists == UNION {[1..n -> BlowoutPool] : n \in 0..MaxGames}

\* 400, 1000, 1000.001 and 1600.002: gaps of exactly 600 and just above.
RatingChoices ==
    {400 * RatingScale, 1000 * RatingScale, 1000 * RatingScale + 1,
     1600 * RatingScale + 2}

BlowoutMinChoices == {0, 1, 2, 99}

BlowoutInit ==
    /\ games \in BlowoutLists
    /\ teams = _iter_teams(games)
    /\ ratings \in [_iter_teams(games) -> RatingChoices]
    /\ blowout_min_other_results \in BlowoutMinChoices
    /\ season_start = 0
    /\ season_end = 0
    /\ convergence_threshold = 0
    /\ max_iters = 0
    /\ ignored_games = {}
    /\ max_change = 0
    /\ iters = 0
    /\ pc = "scan"
    /\ err = NoError
    /\ result = <<>>
    /\ call = NoCall
    /\ retry = NoRetry

\* Lines 153-176: a pass of the while loop that marked a game; iters counts
\* the passes.
ScanChanged ==
    /\ pc = "scan"
    /\ \E pass \in {ScanPass(games, ratings, blowout_min_other_results,
                              ignored_games)} :
           /\ pass.err = NoError
           /\ pass.changed
           /\ ignored_games' = pass.ignored
    /\ iters' = iters + 1
    /\ UNCHANGED <<call, retry, inputs, teams, ratings, max_change, pc, err, result>>

\* Lines 153-177: a pass that marked nothing, and the return.
ScanReturn ==
    /\ pc = "scan"
    /\ \E pass \in {ScanPass(games, ratings, blowout_min_other_results,
                              ignored_games)} :
           /\ pass.err = NoError
           /\ ~pass.changed
           /\ ignored_games' = pass.ignored
    /\ iters' = iters + 1
    /\ pc' = "scan_done"
    /\ UNCHANGED <<call, retry, inputs, teams, ratings, max_change, err, result>>

\* Line 159: _winner_loser raises on a tie.
ScanRaise ==
    /\ pc = "scan"
    /\ \E pass \in {ScanPass(games, ratings, blowout_min_other_results,
                              ignored_games)} :
           /\ pass.err # NoError
           /\ err' = pass.err
    /\ pc' = "scan_raised"
    /\ UNCHANGED <<call, retry, inputs, teams, ratings, ignored_games, max_change, iters,
                   result>>

BlowoutNext ==
    \/ ScanChanged
    \/ ScanReturn
    \/ ScanRaise

BlowoutSpec == BlowoutInit /\ [][BlowoutNext]_vars

----------------------------------------------------------------------------
(* Definitions used by the properties *)

\* The permutations of a list.
ListPermutations(gs) ==
    {[i \in 1..Len(gs) |-> gs[f[i]]] :
        f \in {g \in [1..Len(gs) -> 1..Len(gs)] :
                  \A i, j \in 1..Len(gs) : g[i] = g[j] => i = j}}

\* The games at a set of positions.
GamesAt(gs, positions) == {gs[i] : i \in positions}

\* solve_ratings on the list gs (other arguments as in the state) after k
\* passes of the for loop.
RECURSIVE RunIterations(_, _)
RunIterations(gs, k) ==
    IF k = 0
    THEN [err |-> NoError, ignored |-> {}, max_change |-> 0,
          ratings |-> [team \in _iter_teams(gs) |-> DEFAULT_RATING]]
    ELSE CHOOSE next \in
             {IF prev.err # NoError THEN prev
              ELSE Iteration(gs, _iter_teams(gs), prev.ratings, season_start,
                             season_end, blowout_min_other_results) :
                 prev \in {RunIterations(gs, k - 1)}} : TRUE

\* The number of games of the list a team is involved in.
GamesInvolving(gs, team) ==
    Cardinality({i \in 1..Len(gs) : team \in {gs[i].team_a, gs[i].team_b}})

Returned == pc = "done"

----------------------------------------------------------------------------
(* C1 *)

\* C1: solve_ratings does not depend on the order of the games: after every
\* pass of the loop, the ratings and the ignored games (as games) are those
\* the same call computes on any permutation of the list.
OrderIndependent ==
    (pc \in {"loop", "return"} /\ iters >= 1) =>
        \A p \in ListPermutations(games) :
            \E r \in {RunIterations(p, iters)} :
                /\ r.err = NoError
                /\ r.ratings = ratings
                /\ GamesAt(p, r.ignored) = GamesAt(games, ignored_games)

----------------------------------------------------------------------------
(* C2 *)

\* C2: every game in the set returned by _ignored_blowouts has a winner
\* that is involved in at least min_other_results other games outside the
\* returned set.
IgnoredLeavesEnoughEvidence ==
    pc = "scan_done" =>
        \A idx \in ignored_games :
            NonIgnoredForWinner(games, idx, ignored_games,
                                _winner_loser(games[idx]).winner)
                >= blowout_min_other_results

----------------------------------------------------------------------------
(* C3 *)

ScenarioRun ==
    /\ games = BlowoutScenario
    /\ blowout_min_other_results <= 5
    /\ convergence_threshold <= 1

----------------------------------------------------------------------------
(* C4 *)

MinAboveOtherGames ==
    \A team \in _iter_teams(games) :
        GamesInvolving(games, team) - 1 < blowout_min_other_results

\* C4: when blowout_min_other_results is larger than the number of other
\* games any team is involved in, no pass of the loop ignores a game; in
\* the blowout scenario with the value 99 the rating returned for B is
\* below the default.
NothingIgnoredAboveOtherGames ==
    /\ MinAboveOtherGames => ignored_games = {}
    /\ (Returned /\ games = BlowoutScenario
           /\ blowout_min_other_results = 99) =>
          result["B"] < DEFAULT_RATING

\* The second pass sees A 350 points above the 600-point gap over B.
NothingIgnoredWitness ==
    /\ Returned
    /\ games = BlowoutScenario
    /\ blowout_min_other_results = 99
    /\ iters = 2
    /\ ignored_games = {}
    /\ result["B"] < DEFAULT_RATING
    /\ result["B"] > 400 * RatingScale

----------------------------------------------------------------------------
(* C5 *)

HasTie(gs) == \E i \in 1..Len(gs) : gs[i].score_a = gs[i].score_b

ValidGame(game) ==
    /\ game.score_a # game.score_b
    /\ game.score_a >= 0
    /\ game.score_b >= 0
    /\ Max2(game.score_a, game.score_b) >= 2

ValidCall ==
    /\ max_iters >= 1
    /\ season_end >= season_start
    /\ \A i \in 1..Len(games) : ValidGame(games[i])

\* Variant of the call: every step decreases it.
Rank ==
    CASE pc = "start" -> 3 * Max2(max_iters, 0) + 3
      [] pc = "loop" -> 3 * (Max2(max_iters, 0) - iters) + 2
      [] pc = "return" -> 1
      [] OTHER -> 0

\* The call is at a position from which its next step does not raise.
CanProceed ==
    \/ pc \in {"start", "return"}
    \/ /\ pc = "loop"
       /\ LoopContinues(iters, max_iters) =>
             Iteration(games, teams, ratings, season_start, season_end,
                       blowout_min_other_results).err = NoError

\* C5: a call with max_iters >= 1 and valid games terminates by returning,
\* after at least 1 and at most max_iters passes of the loop (until it has
\* returned it is at a position whose next step does not raise, and every
\* step decreases the variant); once the cap is reached the call returns the
\* snapshot of the last pass and does not raise.
TerminatesWithinCap ==
    /\ [](iters <= Max2(max_iters, 0))
    /\ [](pc \in {"return", "done"} => iters >= 1)
    /\ [](Returned => result = ratings)
    /\ [](ValidCall => (Returned \/ CanProceed))
    /\ [][Rank' < Rank /\ Rank' >= 0]_vars
    /\ [][(pc = "loop" /\ iters = max_iters) =>
            (pc' = "return" /\ ratings' = ratings /\ err' = NoError)]_vars
    /\ [][pc = "return" => (pc' = "done" /\ result' = ratings)]_vars

\* The cap is reached without convergence.
CapReachedWitness ==
    /\ Returned
    /\ games # <<>>
    /\ iters = max_iters
    /\ max_iters >= 2
    /\ max_change >= convergence_threshold
    /\ result = ratings

----------------------------------------------------------------------------
(* C6 *)

\* Largest absolute difference between two ratings maps over all teams.
LargestDifference(old, new) ==
    IF DOMAIN old = {} THEN 0
    ELSE SetMax({Abs(new[t] - old[t]) : t \in DOMAIN old})

PassCompletes == pc = "loop" /\ iters' = iters + 1

\* C6: a pass whose max_change is below convergence_threshold ends the loop
\* and the map it built is returned; a pass whose max_change is not below
\* the threshold is followed by another pass unless it was pass number
\* max_iters; no pass follows a pass that converged.
StopsAtFirstConvergedPass ==
    /\ [][PassCompletes =>
            /\ max_change' = LargestDifference(ratings, ratings')
            /\ (max_change' < convergence_threshold) => pc' = "return"
            /\ (max_change' >= convergence_threshold) => pc' = "loop"]_vars
    /\ [][(PassCompletes /\ iters >= 1) =>
            max_change >= convergence_threshold]_vars
    /\ [][(pc = "loop" /\ iters >= 1 /\ iters < max_iters) =>
            iters' = iters + 1]_vars
    /\ [][pc = "return" =>
            (pc' = "done" /\ result' = ratings /\ iters' = iters)]_vars

\* The loop is left by the break before the cap, after a second pass.
ConvergedWitness ==
    /\ pc = "return"
    /\ games # <<>>
    /\ iters >= 1
    /\ iters < max_iters
    /\ max_change < convergence_threshold

----------------------------------------------------------------------------
(* C7 *)

TieError == ValueError("", "Games cannot end in a tie")

\* C7: a list with a tied game, at any position, makes solve_ratings raise:
\* no pass of the loop completes, nothing is returned, the first pass of
\* the loop is one that raises, and when max_iters is valid the error is
\* the one _winner_loser raises for a tie.
TieAlwaysRaises ==
    HasTie(games) =>
        /\ pc \in {"start", "loop", "raised"}
        /\ iters = 0
        /\ result = <<>>
        /\ pc = "loop" =>
              /\ LoopContinues(iters, max_iters)
              /\ Iteration(games, teams, ratings, season_start, season_end,
                           blowout_min_other_results).err # NoError
        /\ (pc = "raised" /\ max_iters >= 1) => err = TieError
        /\ pc = "raised" => err.type = "ValueError"

\* The tied game is not the first of the list.
TieRaisedWitness ==
    /\ pc = "raised"
    /\ err = TieError
    /\ Len(games) >= 2
    /\ ~IsTie(games[1])
    /\ ~IsTie(games[2])
    /\ HasTie(games)

----------------------------------------------------------------------------
(* C8 *)

\* C8: with max_iters < 1 the call raises the max_iters error before the
\* teams are collected, before the ratings are initialised and before any
\* pass of the loop.
MaxItersCheckedFirst ==
    max_iters < 1 =>
        /\ pc \in {"start", "raised"}
        /\ teams = {}
        /\ ratings = <<>>
        /\ iters = 0
        /\ result = <<>>
        /\ pc = "raised" => err = ValueError("max_iters", "must be >= 1")

\* max_iters = 0 with a list that contains an invalid game.
MaxItersRaisedWitness ==
    /\ pc = "raised"
    /\ max_iters = 0
    /\ \E i \in 1..Len(games) : ~ValidGame(games[i])
    /\ err = ValueError("max_iters", "must be >= 1")

----------------------------------------------------------------------------
(* C9 *)

GameDates == {-7, 0, 8, 30, 40}

SeasonError == ValueError("season_end", "must be on or after season_start")

DateWeightAlwaysRaises ==
    \A d \in GameDates :
        date_weight(d, season_start, season_end).err = SeasonError

\* C9 as stated: with season_end < season_start, date_weight raises for
\* every game date and solve_ratings never reaches its return, whatever
\* the list.
InvalidSeasonAlwaysRaises ==
    season_end < season_start =>
        /\ DateWeightAlwaysRaises
        /\ pc \notin {"return", "done"}

\* C9 amended: with season_end < season_start, date_weight raises for every
\* game date; solve_ratings on a non-empty list completes no pass, returns
\* nothing and raises in its first pass (the season error when max_iters
\* and the games are valid); on the empty list with max_iters >= 1 it makes
\* no date_weight call, does not raise and returns the empty mapping.
InvalidSeasonRaisesUnlessEmpty ==
    season_end < season_start =>
        /\ DateWeightAlwaysRaises
        /\ games # <<>> =>
              /\ pc \in {"start", "loop", "raised"}
              /\ iters = 0
              /\ result = <<>>
              /\ pc = "loop" =>
                    /\ LoopContinues(iters, max_iters)
                    /\ Iteration(games, teams, ratings, season_start,
                                 season_end, blowout_min_other_results).err
                          # NoError
              /\ (pc = "raised" /\ max_iters >= 1
                    /\ \A i \in 1..Len(games) : ValidGame(games[i])) =>
                    err = SeasonError
        /\ (games = <<>> /\ max_iters >= 1) =>
              /\ pc # "raised"
              /\ Returned => (result = <<>> /\ iters >= 1)

\* The season error raised for a list of valid games, the second of which
\* is a blowout.
InvalidSeasonWitness ==
    /\ pc = "raised"
    /\ season_end < season_start
    /\ Len(games) >= 2
    /\ \A i \in 1..Len(games) : ValidGame(games[i])
    /\ err = SeasonError

----------------------------------------------------------------------------
(* C10 *)

\* C10: every error raised out of solve_ratings names the field or the
\* value that triggered it.
ErrorIdentifiesTrigger ==
    pc = "raised" => err.name # ""

----------------------------------------------------------------------------
(* C11 *)

\* Collections of (game_rating, weight) pairs: the empty one, the test's
\* all-zero-weight one (tests/test_rating_engine.py, line 114) and ones
\* with a non-zero total weight.
AggregatorInputs ==
    { <<>>,
      <<TeamGameRating(1200 * RatingScale, 0),
        TeamGameRating(900 * RatingScale, 0)>>,
      <<TeamGameRating(1200 * RatingScale, WeightScale)>>,
      <<TeamGameRating(1200 * RatingScale, 50),
        TeamGameRating(900 * RatingScale, WeightScale)>>,
      <<TeamGameRating(1200 * RatingScale, 0),
        TeamGameRating(900 * RatingScale, 50),
        TeamGameRating(-300 * RatingScale, 71)>> }

\* The sum of a sequence of integers.
RECURSIVE SeqSum(_)
SeqSum(s) ==
    IF Len(s) = 0 THEN 0
    ELSE s[Len(s)] + SeqSum(SubSeq(s, 1, Len(s) - 1))

TotalWeightOf(tg) == SeqSum([i \in 1..Len(tg) |-> tg[i].weight])

WeightedSumOf(tg) ==
    SeqSum([i \in 1..Len(tg) |-> tg[i].game_rating * tg[i].weight])

\* Every game of the list the team is involved in is ignored.
AllGamesIgnored(team) ==
    \A i \in 1..Len(games) :
        team \in {games[i].team_a, games[i].team_b} => i \in ignored_games

\* C11: weighted_team_rating returns sum(rating * weight) / sum(weight)
\* when the total weight is non-zero and the default rating when the
\* collection is empty or its total weight is zero; after every pass of
\* solve_ratings a team all of whose games were ignored in that pass has
\* the default rating in the new map.
EveryTeamHasDefinedRating ==
    /\ \A tg \in AggregatorInputs :
          /\ TotalWeightOf(tg) # 0 =>
                weighted_team_rating(tg)
                    = WeightedSumOf(tg) \div TotalWeightOf(tg)
          /\ TotalWeightOf(tg) = 0 =>
                weighted_team_rating(tg) = DEFAULT_RATING
    /\ (pc \in {"loop", "return"} /\ iters >= 1) =>
          \A team \in teams :
              AllGamesIgnored(team) => ratings[team] = DEFAULT_RATING

\* The second pass of the blowout scenario ignores B's only game.
AllIgnoredTeamWitness ==
    /\ pc = "loop"
    /\ games = BlowoutScenario
    /\ iters = 2
    /\ ignored_games = {1}
    /\ AllGamesIgnored("B")
    /\ ratings["B"] = DEFAULT_RATING
    /\ ratings["C"] # DEFAULT_RATING


-----------------------------------------------------------------------------
(* The helper functions called on their own *)

MaxSeasonDays == 30
MaxScore == 15

\* Python values passed as scores: v is the integer itself, 1 or 0 for
\* True or False, the tenths of a float, the digits of a string.
PyInt(n) == [type |-> "int", v |-> n]
PyBool(b) == [type |-> "bool", v |-> b]
PyFloat(tenths) == [type |-> "float", v |-> tenths]
PyStr(digits) == [type |-> "str", v |-> digits]

\* isinstance(value, int): bool is a subclass of int.
IsInstanceInt(value) == value.type \in {"int", "bool"}

\* Mutant of line 34: the bool exclusion is missing.
IsInstanceBoolNever(value) == FALSE

IsInstanceBool(value) == value.type = "bool"

\* Lines 33-37 for any Python value.
_validate_score_py(name, value) ==
    IF ~IsInstanceInt(value) \/ IsInstanceBool(value)
    THEN TypeError(name, "must be an integer")
    ELSE _validate_score(name, value.v)

\* Lines 45-59 for any Python values.
game_rating_value_py(winner_score, loser_score) ==
    LET e1 == _validate_score_py("winner_score", winner_score)
        e2 == _validate_score_py("loser_score", loser_score)
    IN  IF e1 # NoError THEN [err |-> e1, value |-> 0]
        ELSE IF e2 # NoError THEN [err |-> e2, value |-> 0]
        ELSE game_rating_value(winner_score.v, loser_score.v)

\* The double computed by 0.5 * (2 ** (1 / m)) ** k minus the double nearest
\* to the real number 0.5 * 2^(k/m), in units of 2^-53, where they differ.
HalfPow2Ulps ==
    <<2, 2>> :> 2 @@ <<2, 4>> :> -1 @@ <<4, 4>> :> -1 @@
    <<2, 5>> :> 1 @@ <<3, 5>> :> 2 @@ <<4, 5>> :> 3 @@ <<5, 5>> :> 4

\* Lines 98-108: the rounding error of the returned double, in units of
\* 2^-53; the clamp of line 108 removes an excess over 1.0.
date_weight_ulps(game_date, start, end) ==
    LET num_weeks == 1 + ((end - start) \div 7)
        week_index == Max2(0, Min2((game_date - start) \div 7, num_weeks - 1))
        key == <<week_index, num_weeks - 1>>
        raw == IF num_weeks > 1 /\ key \in DOMAIN HalfPow2Ulps
               THEN HalfPow2Ulps[key] ELSE 0
    IN  IF num_weeks > 1 /\ week_index = num_weeks - 1
        THEN Min2(raw, 0) ELSE raw

SeasonStarts == {0, 3}
GameDays == -8..(MaxSeasonDays + 11)

DateWeightCalls ==
    { [fn |-> "date_weight", game_date |-> d, season_start |-> s,
       season_end |-> s + n] :
        d \in GameDays, s \in SeasonStarts, n \in -1..MaxSeasonDays }

ScoreWeightCalls ==
    { [fn |-> "score_weight", winner_score |-> w, loser_score |-> l] :
        w \in -1..MaxScore, l \in -1..MaxScore }

PyScores ==
    { PyInt(n) : n \in -1..MaxScore }
        \cup {PyBool(1), PyBool(0), PyFloat(105), PyStr(9)}

GameRatingValueCalls ==
    { [fn |-> "game_rating_value", winner_score |-> w, loser_score |-> l] :
        w \in PyScores, l \in PyScores }

HelperInit ==
    /\ call \in DateWeightCalls \cup ScoreWeightCalls \cup GameRatingValueCalls
    /\ games = <<>>
    /\ season_start = 0
    /\ season_end = 0
    /\ convergence_threshold = 0
    /\ max_iters = 0
    /\ blowout_min_other_results = 0
    /\ teams = {}
    /\ ratings = <<>>
    /\ ignored_games = {}
    /\ max_change = 0
    /\ iters = 0
    /\ pc = "call"
    /\ err = NoError
    /\ result = <<>>
    /\ retry = NoRetry

\* Lines 92-108.
CallDateWeight ==
    /\ pc = "call"
    /\ call.fn = "date_weight"
    /\ \E r \in {date_weight(call.game_date, call.season_start,
                             call.season_end)} :
          /\ err' = r.err
          /\ pc' = IF r.err = NoError THEN "returned" ELSE "raised"
          /\ result' = IF r.err = NoError
                       THEN [weight |-> r.weight,
                             ulps |-> date_weight_ulps(call.game_date,
                                                       call.season_start,
                                                       call.season_end)]
                       ELSE <<>>
    /\ UNCHANGED <<call, retry, inputs, teams, ratings, ignored_games, max_change,
                   iters>>

\* Lines 77-89.
CallScoreWeight ==
    /\ pc = "call"
    /\ call.fn = "score_weight"
    /\ \E r \in {score_weight(call.winner_score, call.loser_score)} :
          /\ err' = r.err
          /\ pc' = IF r.err = NoError THEN "returned" ELSE "raised"
          /\ result' = IF r.err = NoError THEN r.weight ELSE <<>>
    /\ UNCHANGED <<call, retry, inputs, teams, ratings, ignored_games, max_change,
                   iters>>

\* Lines 45-59.
CallGameRatingValue ==
    /\ pc = "call"
    /\ call.fn = "game_rating_value"
    /\ \E r \in {game_rating_value_py(call.winner_score, call.loser_score)} :
          /\ err' = r.err
          /\ pc' = IF r.err = NoError THEN "returned" ELSE "raised"
          /\ result' = IF r.err = NoError THEN r.value ELSE <<>>
    /\ UNCHANGED <<call, retry, inputs, teams, ratings, ignored_games, max_change,
                   iters>>

HelperNext == CallDateWeight \/ CallScoreWeight \/ CallGameRatingValue

HelperSpec == HelperInit /\ [][HelperNext]_vars

RECURSIVE IntPow(_, _)
IntPow(b, e) == IF e = 0 THEN 1 ELSE b * IntPow(b, e - 1)

Called(fn) == call.fn = fn /\ pc \in {"returned", "raised"}
ReturnedFrom(fn) == call.fn = fn /\ pc = "returned"
RaisedFrom(fn) == call.fn = fn /\ pc = "raised"

\* 1 + floor(season_days / 7) and the clamped week of a date, as the spec
\* states them.
NumWeeks(start, end) == 1 + ((end - start) \div 7)
WeekOf(d, start, end) ==
    IF d < start THEN 0
    ELSE IF d > end THEN NumWeeks(start, end) - 1
    ELSE (d - start) \div 7

\* w hundredths is 0.5 * 2^(k/m) to the nearest hundredth:
\* (w - 0.5)^m <= 50^m * 2^k <= (w + 0.5)^m, both sides doubled.
IsGeometricWeight(w, k, m) ==
    /\ IntPow(2 * w - 1, m) <= IntPow(2 * 50, m) * IntPow(2, k)
    /\ IntPow(2 * 50, m) * IntPow(2, k) <= IntPow(2 * w + 1, m)

\* C12: for every season_end >= season_start, date_weight is exactly 0.5 on
\* season_start and exactly 1.0 on season_end, and week k of n weeks weighs
\* 0.5 * 2^(k/(n-1)).
SeasonEndpointsExact ==
    (ReturnedFrom("date_weight") /\ call.season_end >= call.season_start) =>
        LET n == NumWeeks(call.season_start, call.season_end)
            k == WeekOf(call.game_date, call.season_start, call.season_end)
        IN  /\ call.game_date = call.season_start =>
                   result = [weight |-> WeightScale \div 2, ulps |-> 0]
            /\ call.game_date = call.season_end =>
                   result = [weight |-> WeightScale, ulps |-> 0]
            /\ n > 1 => IsGeometricWeight(result.weight, k, n - 1)


\* C12 amended: in a season of at least two weeks (season_end at least 7
\* days after season_start) date_weight is exactly 0.5 on season_start and
\* 1.0 on season_end up to the rounding of the double (one unit in the last
\* place below 1.0 in a five-week season), and week k of n weeks weighs
\* 0.5 * 2^(k/(n-1)); in a shorter season every date, season_end included,
\* weighs exactly 0.5.
SeasonEndpointsByWeeks ==
    (ReturnedFrom("date_weight") /\ call.season_end >= call.season_start) =>
        LET n == NumWeeks(call.season_start, call.season_end)
            k == WeekOf(call.game_date, call.season_start, call.season_end)
        IN  /\ n = 1 => result = [weight |-> WeightScale \div 2, ulps |-> 0]
            /\ n > 1 =>
                  /\ call.game_date = call.season_start =>
                         result = [weight |-> WeightScale \div 2, ulps |-> 0]
                  /\ call.game_date = call.season_end =>
                         /\ result.weight = WeightScale
                         /\ result.ulps = IF n = 5 THEN -1 ELSE 0
                  /\ IsGeometricWeight(result.weight, k, n - 1)

SeasonEndWitness ==
    /\ ReturnedFrom("date_weight")
    /\ call.season_start = 0
    /\ call.season_end = 28
    /\ call.game_date = 28
    /\ result = [weight |-> WeightScale, ulps |-> -1]


\* The weight and rounding error date_weight returns for date d in the
\* season of the current call.
WeightOn(d) ==
    [weight |-> date_weight(d, call.season_start, call.season_end).weight,
     ulps |-> date_weight_ulps(d, call.season_start, call.season_end)]

NotAbove(w1, w2) ==
    w1.weight < w2.weight \/ (w1.weight = w2.weight /\ w1.ulps <= w2.ulps)

\* C13: for season_end >= season_start date_weight never raises; a date
\* before season_start weighs what week 0 weighs, a date after season_end
\* what the last week weighs, with num_weeks = 1 + floor(season_days / 7);
\* the weight is within [0.5, 1.0] and does not decrease with the date.
DateClampedNotRejected ==
    (Called("date_weight") /\ call.season_end >= call.season_start) =>
        LET n == NumWeeks(call.season_start, call.season_end)
            k == WeekOf(call.game_date, call.season_start, call.season_end)
        IN  /\ pc = "returned"
            /\ err = NoError
            /\ k \in 0..(n - 1)
            /\ result = WeightOn(call.season_start + 7 * k)
            /\ call.game_date < call.season_start =>
                   result = WeightOn(call.season_start)
            /\ call.game_date > call.season_end =>
                   result = WeightOn(call.season_end)
            /\ NotAbove([weight |-> WeightScale \div 2, ulps |-> 0], result)
            /\ NotAbove(result, [weight |-> WeightScale, ulps |-> 0])
            /\ \A d \in GameDays : d <= call.game_date =>
                   NotAbove(WeightOn(d), result)

DateAfterSeasonWitness ==
    /\ ReturnedFrom("date_weight")
    /\ call.season_start = 3
    /\ call.season_end = 24
    /\ call.game_date = 40
    /\ result.weight = WeightScale

DateBeforeSeasonWitness ==
    /\ ReturnedFrom("date_weight")
    /\ call.season_start = 3
    /\ call.season_end = 24
    /\ call.game_date = -8
    /\ result.weight = WeightScale \div 2


\* w hundredths is sqrt((winner_score + max(loser_score,
\* (winner_score - 1) / 2)) / 19) cut to hundredths, or 1.0 when the root
\* is larger: w^2 * 38 <= (2 * winner_score + max(2 * loser_score,
\* winner_score - 1)) * 100^2 < (w + 1)^2 * 38.
IsScoreRoot(w, winner_score, loser_score) ==
    LET twice == 2 * winner_score
                     + (IF 2 * loser_score >= winner_score - 1
                        THEN 2 * loser_score ELSE winner_score - 1)
        scaled == twice * WeightScale * WeightScale
    IN  /\ w * w * 38 <= scaled
        /\ w = WeightScale \/ scaled < (w + 1) * (w + 1) * 38

\* C14: score_weight is exactly 1.0 when winner_score >= 13 or
\* winner_score + loser_score >= 19, else min(1.0, sqrt((winner_score +
\* max(loser_score, (winner_score - 1) / 2)) / 19)), which lies in (0, 1];
\* it raises a ValueError when winner_score <= loser_score or a score is
\* negative, and only then.
ScoreWeightRule ==
    Called("score_weight") =>
        LET ws == call.winner_score
            ls == call.loser_score
        IN  /\ pc = "raised" <=> (ws < 0 \/ ls < 0 \/ ws <= ls)
            /\ pc = "raised" => err.type = "ValueError"
            /\ pc = "returned" =>
                  /\ err = NoError
                  /\ 0 < result /\ result <= WeightScale
                  /\ (ws >= 13 \/ ws + ls >= 19) => result = WeightScale
                  /\ ~(ws >= 13 \/ ws + ls >= 19) =>
                         IsScoreRoot(result, ws, ls)

ScoreWeightWitness ==
    /\ ReturnedFrom("score_weight")
    /\ call.winner_score = 8
    /\ call.loser_score = 1
    /\ result = 77


\* Both scores of the current game_rating_value call are integers with
\* winner_score > loser_score >= 0 and winner_score >= 2.
ValidScores ==
    /\ call.winner_score.type = "int"
    /\ call.loser_score.type = "int"
    /\ call.loser_score.v >= 0
    /\ call.winner_score.v > call.loser_score.v
    /\ call.winner_score.v >= 2

\* C15: for valid scores game_rating_value is within [125, 600], does not
\* increase as loser_score grows toward winner_score - 1, is 125 when
\* loser_score = winner_score - 1 and exactly 600 for a shutout and whenever
\* 2 * loser_score <= winner_score - 1.
GameValueRange ==
    (Called("game_rating_value") /\ ValidScores) =>
        LET ws == call.winner_score.v
            ls == call.loser_score.v
        IN  /\ pc = "returned"
            /\ 125 * RatingScale <= result /\ result <= 600 * RatingScale
            /\ \A closer \in ls..(ws - 1) :
                   game_rating_value(ws, closer).value <= result
            /\ ls = ws - 1 => result = 125 * RatingScale
            /\ ls = 0 => result = 600 * RatingScale
            /\ 2 * ls <= ws - 1 => result = 600 * RatingScale

GameValueWitness ==
    /\ ReturnedFrom("game_rating_value")
    /\ call.winner_score = PyInt(15)
    /\ call.loser_score = PyInt(14)
    /\ result = 125 * RatingScale

\* Lines 18-45 of the test: the published table.
PublishedTable ==
    <<15, 14>> :> 125 @@ <<15, 13>> :> 214 @@ <<15, 12>> :> 300 @@
    <<15, 11>> :> 381 @@ <<15, 10>> :> 454 @@ <<15, 9>> :> 515 @@
    <<15, 8>> :> 565 @@ <<15, 7>> :> 600 @@
    <<13, 12>> :> 125 @@ <<13, 11>> :> 229 @@ <<13, 10>> :> 328 @@
    <<13, 9>> :> 419 @@ <<13, 8>> :> 496 @@ <<13, 7>> :> 558 @@
    <<13, 6>> :> 600 @@
    <<11, 10>> :> 125 @@ <<11, 9>> :> 249 @@ <<11, 8>> :> 366 @@
    <<11, 7>> :> 467 @@ <<11, 6>> :> 547 @@ <<11, 5>> :> 600

\* round(x) for a non-negative x in thousandths that is not a tie.
RoundToInteger(x) == (x + RatingScale \div 2) \div RatingScale

\* C16: game_rating_value rounded to the nearest integer is the published
\* value for every score pair of the table.
PublishedTableReproduced ==
    (Called("game_rating_value") /\ ValidScores
     /\ <<call.winner_score.v, call.loser_score.v>> \in DOMAIN PublishedTable)
        =>
        /\ pc = "returned"
        /\ result % RatingScale # RatingScale \div 2
        /\ RoundToInteger(result) =
               PublishedTable[<<call.winner_score.v, call.loser_score.v>>]

PublishedRowWitness ==
    /\ ReturnedFrom("game_rating_value")
    /\ call.winner_score = PyInt(15)
    /\ call.loser_score = PyInt(10)
    /\ RoundToInteger(result) = 454


\* C17: game_rating_value returns a value only for two non-negative
\* integers (no booleans) with winner_score > loser_score and
\* winner_score >= 2; every other input raises a ValueError or a TypeError
\* and no value is returned.
ValidationComplete ==
    Called("game_rating_value") =>
        /\ pc = "returned" <=> ValidScores
        /\ pc = "returned" => err = NoError /\ result >= 125 * RatingScale
        /\ pc = "raised" =>
              /\ result = <<>>
              /\ err.type \in {"ValueError", "TypeError"}
              /\ call.winner_score.type # "int" => err.type = "TypeError"
              /\ (call.winner_score.type = "int" /\ call.winner_score.v >= 0
                  /\ call.loser_score.type # "int") => err.type = "TypeError"
              /\ (call.winner_score.type = "int"
                  /\ call.loser_score.type = "int") => err.type = "ValueError"

BooleanScoreWitness ==
    /\ RaisedFrom("game_rating_value")
    /\ call.winner_score = PyInt(5)
    /\ call.loser_score = PyBool(1)
    /\ err = TypeError("loser_score", "must be an integer")


-----------------------------------------------------------------------------
(* solve_ratings on the five games of the test *)

\* tests/test_rating_engine.py, lines 119-125 (day 0 is 2024-01-01).
FiveGames ==
    << Game(0, "A", "B", 15, 10),
       Game(1, "A", "C", 15, 9),
       Game(2, "B", "C", 15, 14),
       Game(3, "D", "C", 15, 12),
       Game(4, "A", "D", 15, 13) >>

\* max_iters of the test, line 132.
TestMaxIters == 5000

\* convergence_threshold of the test, line 131: 0.01.
TestThreshold == RatingScale \div 100

EndToEndInit ==
    /\ games = FiveGames
    /\ \E s \in Seasons : season_start = s[1] /\ season_end = s[2]
    /\ convergence_threshold \in {TestThreshold, RatingScale}
    /\ max_iters \in (-1..MaxIters) \cup {TestMaxIters}
    /\ blowout_min_other_results \in MinOtherChoices
    /\ teams = {}
    /\ ratings = <<>>
    /\ ignored_games = {}
    /\ max_change = 0
    /\ iters = 0
    /\ pc = "start"
    /\ err = NoError
    /\ result = <<>>
    /\ call = NoCall
    /\ retry = NoRetry

EndToEndSpec == EndToEndInit /\ [][Next]_vars

\* The call of the test: its games, season, threshold and cap.
TestCall ==
    /\ games = FiveGames
    /\ season_start = 0
    /\ season_end = 30
    /\ convergence_threshold = TestThreshold
    /\ max_iters = TestMaxIters

\* C18: on the five games of the test, with the test's season, threshold
\* and cap, solve_ratings does not raise, leaves the loop by convergence
\* before the cap is reached, and returns ratings with A > B > C and A > D.
EndToEndConverges ==
    TestCall =>
        /\ pc # "raised"
        /\ Returned \/ CanProceed
        /\ pc = "loop" => iters < max_iters
        /\ pc \in {"return", "done"} =>
              /\ iters >= 1
              /\ iters < max_iters
              /\ max_change < convergence_threshold
              /\ ratings["A"] > ratings["B"]
              /\ ratings["B"] > ratings["C"]
              /\ ratings["A"] > ratings["D"]
        /\ Returned => result = ratings

\* The call of the test has returned after 23 passes.
EndToEndWitness ==
    /\ TestCall
    /\ Returned
    /\ iters = 23
    /\ max_change < convergence_threshold
    /\ result["A"] > result["D"]
    /\ result["D"] > result["B"]
    /\ result["B"] > result["C"]


-----------------------------------------------------------------------------
(* C20 *)

\* The game rating of `team` in a game it played, on the snapshot rt.
SnapshotGameRating(game, team, rt) ==
    LET a_won == game.score_a > game.score_b
        winner == IF a_won THEN game.team_a ELSE game.team_b
        loser == IF a_won THEN game.team_b ELSE game.team_a
        value == game_rating_value(Max2(game.score_a, game.score_b),
                                   Min2(game.score_a, game.score_b)).value
    IN  IF team = winner THEN rt[loser] + value ELSE rt[winner] - value

SnapshotWeight(game) ==
    (date_weight(game.date, season_start, season_end).weight
        * score_weight(Max2(game.score_a, game.score_b),
                       Min2(game.score_a, game.score_b)).weight)
        \div WeightScale

\* The weighted average of the game ratings of `team` over the games that
\* are not in `ignored`, on the snapshot rt.
SnapshotRating(team, rt, ignored) ==
    LET counted(i) == /\ i \notin ignored
                      /\ team \in {games[i].team_a, games[i].team_b}
        total == SeqSum([i \in 1..Len(games) |->
                            IF counted(i) THEN SnapshotWeight(games[i])
                            ELSE 0])
        sum == SeqSum([i \in 1..Len(games) |->
                          IF counted(i)
                          THEN SnapshotGameRating(games[i], team, rt)
                                   * SnapshotWeight(games[i])
                          ELSE 0])
    IN  IF total = 0 THEN DEFAULT_RATING ELSE sum \div total

\* C20: a pass of the loop works on the ratings map it was entered with:
\* its ignored set is the one the scan computes from an empty set on that
\* map, whatever was ignored in the pass before, and every new rating is
\* the weighted average of game ratings computed from that map; the map is
\* replaced only when the pass completes.
FrozenSnapshot ==
    [][PassCompletes =>
          /\ ignored_games' =
                 ScanLoop(games, ratings, blowout_min_other_results, {}).ignored
          /\ \A team \in teams :
                 ratings'[team] = SnapshotRating(team, ratings, ignored_games')
          /\ DOMAIN ratings' = teams]_vars

\* The A-B game of the blowout scenario, ignored in pass 2, is counted again
\* in pass 3 (and it was counted in pass 1).
CountedAgainWitness ==
    /\ pc = "loop"
    /\ games = BlowoutScenario
    /\ iters = 3
    /\ ignored_games = {}
    /\ RunIterations(games, 2).ignored = {1}
    /\ RunIterations(games, 1).ignored = {}


-----------------------------------------------------------------------------
(* usau_ingest.py: from the responses of the site to the list of Game *)

MaxItems == 2
MaxRows == 1

\* JSON values as Python sees them: s is the text of a string without its
\* surrounding white space, pad tells whether it had any; n is an integer,
\* 1 or 0 for true or false, or the tenths of a float; a dict value is
\* {"name": s}.
JsonNone == [type |-> "none", s |-> "", n |-> 0, pad |-> FALSE]
JsonInt(n) == [type |-> "int", s |-> "", n |-> n, pad |-> FALSE]
JsonBool(b) == [type |-> "bool", s |-> "", n |-> b, pad |-> FALSE]
JsonFloat(tenths) == [type |-> "float", s |-> "", n |-> tenths, pad |-> FALSE]
JsonStr(text) == [type |-> "str", s |-> text, n |-> 0, pad |-> FALSE]
JsonPadded(text) == [type |-> "str", s |-> text, n |-> 0, pad |-> TRUE]
JsonTeam(text) == [type |-> "dict", s |-> text, n |-> 0, pad |-> FALSE]

\* bool(value)
Truthy(value) ==
    CASE value.type = "none" -> FALSE
      [] value.type \in {"int", "bool", "float"} -> value.n # 0
      [] value.type = "str" -> value.s # "" \/ value.pad
      [] OTHER -> TRUE

\* a or b or c
PyOr(a, b, c) == IF Truthy(a) THEN a ELSE IF Truthy(b) THEN b ELSE c

\* date.fromisoformat on the strings of the model (day 0 is 2024-01-01);
\* any other string raises ValueError.
IsoDates == "2024-03-01" :> 60 @@ "2024-03-15" :> 74

\* value.split("T", 1)[0] for the strings of the model that hold a "T".
BeforeT == "2024-03-01T10:00:00" :> "2024-03-01"

\* int(text) for the strings of the model for which isdigit() holds.
Digits == "0" :> 0 @@ "7" :> 7 @@ "11" :> 11 @@ "12" :> 12 @@ "15" :> 15

ItemKeys ==
    {"date", "game_date", "start_date", "team_a", "team1", "home_team",
     "team_b", "team2", "away_team", "score_a", "team_a_score", "score1",
     "score_b", "team_b_score", "score2"}

\* A JSON object with the given keys; get[k] is item.get(k).
Item(fields) ==
    [type |-> "dict", get |-> fields @@ [k \in ItemKeys |-> JsonNone]]

\* An entry of the list that is not an object.
NotAnItem == [type |-> "int", get |-> [k \in ItemKeys |-> JsonNone]]

\* Lines 49-57; shape is "list" for a list, "results" for an object whose
\* "results" is a list, "invalid" for a body that is not JSON.
_extract_items(payload) ==
    IF payload.shape \in {"list", "results"}
    THEN SelectSeq(payload.items, LAMBDA item : item.type = "dict")
    ELSE <<>>

\* Lines 60-68; none stands for None.
_team_name(raw) ==
    IF raw.type = "str"
    THEN [none |-> raw.s = "", name |-> raw.s]
    ELSE IF raw.type = "dict" /\ raw.s # ""
    THEN [none |-> FALSE, name |-> raw.s]
    ELSE [none |-> TRUE, name |-> ""]

\* Lines 71-80.
_parse_date(raw) ==
    IF raw.type # "str" \/ ~Truthy(raw)
    THEN [none |-> TRUE, day |-> 0]
    ELSE LET value == IF raw.s \in DOMAIN BeforeT THEN BeforeT[raw.s]
                      ELSE raw.s
         IN  IF value \in DOMAIN IsoDates
             THEN [none |-> FALSE, day |-> IsoDates[value]]
             ELSE [none |-> TRUE, day |-> 0]

\* Lines 83-90.
_parse_score(raw) ==
    IF raw.type = "bool" THEN [none |-> TRUE, score |-> 0]
    ELSE IF raw.type = "int" THEN [none |-> FALSE, score |-> raw.n]
    ELSE IF raw.type = "str" /\ raw.s \in DOMAIN Digits
    THEN [none |-> FALSE, score |-> Digits[raw.s]]
    ELSE [none |-> TRUE, score |-> 0]

\* Lines 93-116, without source_url, which fetch_games drops.
_parse_item(item) ==
    LET game_date == _parse_date(PyOr(item.get["date"], item.get["game_date"],
                                      item.get["start_date"]))
        team_a == _team_name(PyOr(item.get["team_a"], item.get["team1"],
                                  item.get["home_team"]))
        team_b == _team_name(PyOr(item.get["team_b"], item.get["team2"],
                                  item.get["away_team"]))
        score_a == _parse_score(PyOr(item.get["score_a"],
                                     item.get["team_a_score"],
                                     item.get["score1"]))
        score_b == _parse_score(PyOr(item.get["score_b"],
                                     item.get["team_b_score"],
                                     item.get["score2"]))
        nothing == [none |-> TRUE, game |-> Game(0, "", "", 0, 0)]
    IN  IF game_date.none \/ team_a.none \/ team_b.none \/ score_a.none
           \/ score_b.none
        THEN nothing
        ELSE IF score_a.score = score_b.score THEN nothing
        ELSE [none |-> FALSE,
              game |-> Game(game_date.day, team_a.name, team_b.name,
                            score_a.score, score_b.score)]

\* list.sort(key=date): stable.
RECURSIVE SortByDate(_)
SortByDate(parsed) ==
    IF parsed = <<>> THEN <<>>
    ELSE LET last == parsed[Len(parsed)]
             front == SortByDate(SubSeq(parsed, 1, Len(parsed) - 1))
             n == Cardinality({i \in 1..Len(front) : front[i].date <= last.date})
         IN  SubSeq(front, 1, n) \o <<last>> \o SubSeq(front, n + 1, Len(front))

\* Lines 180-191: a row of the HTML table with 5 cells, as an item.
RowItem(row) ==
    Item([date |-> JsonStr(row.date), team_a |-> JsonStr(row.team_a),
          score_a |-> JsonStr(row.score_a), score_b |-> JsonStr(row.score_b),
          team_b |-> JsonStr(row.team_b)])

Row(d, a, sa, sb, b) ==
    [cells |-> 5, date |-> d, team_a |-> a, score_a |-> sa, score_b |-> sb,
     team_b |-> b]

RawItems ==
    { Item([date |-> JsonStr("2024-03-15"), team_a |-> JsonStr("Alpha"),
            team_b |-> JsonStr("Beta"), score_a |-> JsonInt(15),
            score_b |-> JsonInt(12)]),
      Item([game_date |-> JsonStr("2024-03-01T10:00:00"),
            team1 |-> JsonTeam("Gamma"), team2 |-> JsonPadded("Beta"),
            score1 |-> JsonStr("11"), score2 |-> JsonPadded("7")]),
      Item([date |-> JsonStr("2024-03-15"), team_a |-> JsonStr("Alpha"),
            team_b |-> JsonStr("Alpha"), score_a |-> JsonInt(15),
            score_b |-> JsonInt(12)]),
      Item([date |-> JsonStr("2024-03-15"), team_a |-> JsonStr("Alpha"),
            team_b |-> JsonStr("Beta"), score_a |-> JsonInt(15),
            score_b |-> JsonInt(-3)]),
      Item([date |-> JsonStr("2024-03-15"), team_a |-> JsonStr("Alpha"),
            team_b |-> JsonStr("Beta"), score_a |-> JsonInt(10),
            score_b |-> JsonInt(10)]),
      Item([date |-> JsonStr("2024-03-15"), team_a |-> JsonStr("Alpha"),
            team_b |-> JsonStr("Beta"), score_a |-> JsonInt(15),
            score_b |-> JsonInt(0)]),
      Item([date |-> JsonStr("03/15/2024"), team_a |-> JsonStr("Alpha"),
            team_b |-> JsonStr("Beta"), score_a |-> JsonInt(15),
            score_b |-> JsonInt(12)]),
      Item([date |-> JsonStr("2024-03-15"), team_a |-> JsonPadded(""),
            team_b |-> JsonStr("Beta"), score_a |-> JsonInt(15),
            score_b |-> JsonInt(12)]),
      Item([date |-> JsonStr("2024-03-15"), team_a |-> JsonStr("Alpha"),
            team_b |-> JsonStr("Beta"), score_a |-> JsonBool(1),
            score_b |-> JsonFloat(120)]),
      NotAnItem }

HtmlRows ==
    { Row("2024-03-15", "Alpha", "15", "12", "Beta"),
      Row("2024-03-01", "Gamma", "7", "7", "Beta"),
      Row("2024-03-15", "Alpha", "15", "0", "Alpha"),
      [cells |-> 3, date |-> "", team_a |-> "", score_a |-> "",
       score_b |-> "", team_b |-> ""] }

ItemLists == UNION {[1..n -> RawItems] : n \in 0..MaxItems}

Payloads ==
    { [shape |-> sh, items |-> items] :
        sh \in {"list", "results"}, items \in ItemLists }
        \cup {[shape |-> "invalid", items |-> <<>>]}

HtmlTables == UNION {[1..n -> HtmlRows] : n \in 0..MaxRows}

\* Whether each request succeeds within its attempts, and whether
\* BeautifulSoup is installed.
Environments ==
    { [api |-> "ok", html |-> "ok", bs4 |-> TRUE],
      [api |-> "ok", html |-> "ok", bs4 |-> FALSE],
      [api |-> "ok", html |-> "error", bs4 |-> TRUE],
      [api |-> "error", html |-> "ok", bs4 |-> TRUE] }

RequestError == [type |-> "RequestException", name |-> "", text |-> ""]

\* games is the local `parsed` (its Game records), iters the number of
\* entries of the current loop that are done.
IngestInit ==
    /\ \E payload \in Payloads, rows \in HtmlTables, env \in Environments :
          call = [fn |-> "fetch_games", payload |-> payload, rows |-> rows,
                  env |-> env]
    /\ games = <<>>
    /\ season_start = 0
    /\ season_end = 0
    /\ convergence_threshold = 0
    /\ max_iters = 0
    /\ blowout_min_other_results = 0
    /\ teams = {}
    /\ ratings = <<>>
    /\ ignored_games = {}
    /\ max_change = 0
    /\ iters = 0
    /\ pc = "request"
    /\ err = NoError
    /\ result = <<>>
    /\ retry = NoRetry

\* Lines 160-166: the API answers.
ReceiveJson ==
    /\ pc = "request"
    /\ call.env.api = "ok"
    /\ pc' = "json"
    /\ UNCHANGED <<call, retry, games, season_start, season_end,
                   convergence_threshold, max_iters,
                   blowout_min_other_results, teams, ratings, ignored_games,
                   max_change, iters, err, result>>

\* Lines 128-151 for line 160: the last attempt of the API request fails.
ApiRequestRaises ==
    /\ pc = "request"
    /\ call.env.api = "error"
    /\ pc' = "raised"
    /\ err' = RequestError
    /\ UNCHANGED <<call, retry, games, season_start, season_end,
                   convergence_threshold, max_iters,
                   blowout_min_other_results, teams, ratings, ignored_games,
                   max_change, iters, result>>

\* Lines 128-151 for line 181: the last attempt of the page request fails.
HtmlRequestRaises ==
    /\ pc = "json"
    /\ iters = Len(_extract_items(call.payload))
    /\ games = <<>>
    /\ call.env.bs4
    /\ call.env.html = "error"
    /\ pc' = "raised"
    /\ err' = RequestError
    /\ UNCHANGED <<call, retry, games, season_start, season_end,
                   convergence_threshold, max_iters,
                   blowout_min_other_results, teams, ratings, ignored_games,
                   max_change, iters, result>>

\* Lines 168-171: one item of the payload.
ParseJsonItem ==
    /\ pc = "json"
    /\ iters < Len(_extract_items(call.payload))
    /\ \E game \in {_parse_item(_extract_items(call.payload)[iters + 1])} :
          games' = IF game.none THEN games ELSE Append(games, game.game)
    /\ iters' = iters + 1
    /\ UNCHANGED <<call, retry, season_start, season_end, convergence_threshold,
                   max_iters, blowout_min_other_results, teams, ratings,
                   ignored_games, max_change, pc, err, result>>

\* Lines 173-175 and 207.
ReturnJson ==
    /\ pc = "json"
    /\ iters = Len(_extract_items(call.payload))
    /\ games # <<>>
    /\ result' = SortByDate(games)
    /\ pc' = "done"
    /\ UNCHANGED <<call, retry, games, season_start, season_end,
                   convergence_threshold, max_iters,
                   blowout_min_other_results, teams, ratings, ignored_games,
                   max_change, iters, err>>

\* Lines 178-179 and 207: nothing parsed and no BeautifulSoup.
ReturnEmpty ==
    /\ pc = "json"
    /\ iters = Len(_extract_items(call.payload))
    /\ games = <<>>
    /\ ~call.env.bs4
    /\ result' = <<>>
    /\ pc' = "done"
    /\ UNCHANGED <<call, retry, games, season_start, season_end,
                   convergence_threshold, max_iters,
                   blowout_min_other_results, teams, ratings, ignored_games,
                   max_change, iters, err>>

\* Lines 181-182: the results page answers.
ReceiveHtml ==
    /\ pc = "json"
    /\ iters = Len(_extract_items(call.payload))
    /\ games = <<>>
    /\ call.env.bs4
    /\ call.env.html = "ok"
    /\ pc' = "html"
    /\ iters' = 0
    /\ UNCHANGED <<call, retry, games, season_start, season_end,
                   convergence_threshold, max_iters,
                   blowout_min_other_results, teams, ratings, ignored_games,
                   max_change, err, result>>

\* Lines 184-198: one row of the table.
ParseHtmlRow ==
    /\ pc = "html"
    /\ iters < Len(call.rows)
    /\ \E row \in {call.rows[iters + 1]} :
          IF row.cells < 5 THEN games' = games
          ELSE \E game \in {_parse_item(RowItem(row))} :
                  games' = IF game.none THEN games
                           ELSE Append(games, game.game)
    /\ iters' = iters + 1
    /\ UNCHANGED <<call, retry, season_start, season_end, convergence_threshold,
                   max_iters, blowout_min_other_results, teams, ratings,
                   ignored_games, max_change, pc, err, result>>

\* Lines 200-201 and 207.
ReturnHtml ==
    /\ pc = "html"
    /\ iters = Len(call.rows)
    /\ result' = SortByDate(games)
    /\ pc' = "done"
    /\ UNCHANGED <<call, retry, games, season_start, season_end,
                   convergence_threshold, max_iters,
                   blowout_min_other_results, teams, ratings, ignored_games,
                   max_change, iters, err>>

IngestNext ==
    \/ ReceiveJson
    \/ ApiRequestRaises
    \/ HtmlRequestRaises
    \/ ParseJsonItem
    \/ ReturnJson
    \/ ReturnEmpty
    \/ ReceiveHtml
    \/ ParseHtmlRow
    \/ ReturnHtml

IngestSpec == IngestInit /\ [][IngestNext]_vars

\* What spec section 6 asks of a Game handed to the solver.
SolverGame(game) ==
    /\ game.date \in Int
    /\ game.team_a # ""
    /\ game.team_b # ""
    /\ game.team_a # game.team_b
    /\ game.score_a \in Nat
    /\ game.score_b \in Nat
    /\ game.score_a # game.score_b

\* C19: every Game fetch_games returns has a calendar date, two distinct
\* non-empty team identifiers and two non-negative integer scores that are
\* not equal; an item that does not meet this is dropped.
IngestedGamesValid ==
    (call.fn = "fetch_games" /\ pc = "done") =>
        \A i \in 1..Len(result) : SolverGame(result[i])


-----------------------------------------------------------------------------
(* C21 *)

\* Game number i meets the three conditions of the rule on the snapshot
\* `ratings`, the games of `ignored` not counting as other results.
MeetsAllConditions(i, ignored) ==
    LET game == games[i]
        a_won == game.score_a > game.score_b
        winner == IF a_won THEN game.team_a ELSE game.team_b
        loser == IF a_won THEN game.team_b ELSE game.team_a
        winner_score == IF a_won THEN game.score_a ELSE game.score_b
        loser_score == IF a_won THEN game.score_b ELSE game.score_a
        others == {j \in 1..Len(games) \ (ignored \cup {i}) :
                      winner \in {games[j].team_a, games[j].team_b}}
    IN  /\ ratings[winner] - ratings[loser] > 600 * RatingScale
        /\ winner_score > 2 * loser_score + 1
        /\ Cardinality(others) >= blowout_min_other_results

\* C21: on a list without ties _ignored_blowouts terminates: no scan
\* raises, the ignored set only grows, every scan but the last adds a game,
\* and there are at most len(games) + 1 scans; the set it returns is
\* quiescent: no game outside it meets all three conditions.
ScanTerminatesQuiescent ==
    /\ [](~HasTie(games) => pc # "scan_raised")
    /\ []((~HasTie(games) /\ pc = "scan") =>
            ScanPass(games, ratings, blowout_min_other_results,
                     ignored_games).err = NoError)
    /\ [](iters <= Len(games) + 1)
    /\ [](ignored_games \subseteq 1..Len(games))
    /\ [][ignored_games \subseteq ignored_games']_vars
    /\ [][(pc = "scan" /\ pc' = "scan") =>
            Cardinality(ignored_games') > Cardinality(ignored_games)]_vars
    /\ [][(pc = "scan" /\ pc' = "scan_done") =>
            ignored_games' = ignored_games]_vars
    /\ [](pc = "scan_done" =>
            \A i \in 1..Len(games) \ ignored_games :
                ~MeetsAllConditions(i, ignored_games))

\* A second scan has found nothing to add to a non-empty set, and a game
\* left outside it fails the third condition only because of that set.
QuiescentWitness ==
    /\ pc = "scan_done"
    /\ iters = 2
    /\ ignored_games # {}
    /\ \E i \in 1..Len(games) \ ignored_games :
          /\ MeetsAllConditions(i, {})
          /\ ~MeetsAllConditions(i, ignored_games)


-----------------------------------------------------------------------------
(* C22 *)

\* ratings[winner] - ratings[loser] of game number i.
RatingGapOf(i) ==
    IF games[i].score_a > games[i].score_b
    THEN ratings[games[i].team_a] - ratings[games[i].team_b]
    ELSE ratings[games[i].team_b] - ratings[games[i].team_a]

\* winner_score - (2 * loser_score + 1) of game number i.
ScoreMarginOf(i) ==
    Max2(games[i].score_a, games[i].score_b)
        - (2 * Min2(games[i].score_a, games[i].score_b) + 1)

\* C22: every game _ignored_blowouts has marked has, on the snapshot,
\* ratings[winner] - ratings[loser] > 600 and
\* winner_score > 2 * loser_score + 1, both strictly: a game with a gap of
\* exactly 600 or with winner_score = 2 * loser_score + 1 is never in the
\* set, whatever min_other_results is.
IgnoredOnlyStrictBlowouts ==
    pc \in {"scan", "scan_done"} =>
        /\ \A i \in ignored_games :
              /\ RatingGapOf(i) > 600 * RatingScale
              /\ ScoreMarginOf(i) > 0
        /\ \A i \in 1..Len(games) :
              (RatingGapOf(i) = 600 * RatingScale \/ ScoreMarginOf(i) = 0) =>
                  i \notin ignored_games

\* With min_other_results = 0 a blowout over a gap of exactly 600 and a 15-7
\* over a larger gap are kept while another game is ignored.
BoundaryKeptWitness ==
    /\ pc = "scan_done"
    /\ blowout_min_other_results = 0
    /\ ignored_games # {}
    /\ \E i \in 1..Len(games) \ ignored_games :
          RatingGapOf(i) = 600 * RatingScale /\ ScoreMarginOf(i) > 0
    /\ \E i \in 1..Len(games) \ ignored_games :
          RatingGapOf(i) > 600 * RatingScale /\ ScoreMarginOf(i) = 0


-----------------------------------------------------------------------------
(* C23 *)

\* The list holds a game with a negative score or a winning score below 2.
HasInvalidScore(gs) ==
    \E i \in 1..Len(gs) :
        \/ gs[i].score_a < 0
        \/ gs[i].score_b < 0
        \/ Max2(gs[i].score_a, gs[i].score_b) < 2

\* C23: the first pass of solve_ratings ignores no game, all ratings being
\* the default; so a list with a negative score or a winning score below 2
\* makes solve_ratings raise, whatever max_iters and
\* blowout_min_other_results are: no pass completes, nothing is returned,
\* and the first pass is one that raises.
InvalidScoreAlwaysRaises ==
    /\ (pc = "loop" /\ iters = 0) =>
          /\ \A team \in teams : ratings[team] = DEFAULT_RATING
          /\ \A i \in 1..Len(games) :
                ~IsTie(games[i]) => RatingGapOf(i) = 0
          /\ ScanLoop(games, ratings, blowout_min_other_results, {}).ignored
                 = {}
    /\ (pc \in {"loop", "return", "done"} /\ iters = 1) => ignored_games = {}
    /\ HasInvalidScore(games) =>
          /\ pc \in {"start", "loop", "raised"}
          /\ iters = 0
          /\ result = <<>>
          /\ pc = "loop" =>
                /\ LoopContinues(iters, max_iters)
                /\ Iteration(games, teams, ratings, season_start, season_end,
                             blowout_min_other_results).err # NoError
          /\ pc = "raised" => err.type = "ValueError"

\* A negative score behind two valid games of its winner is found in the
\* first pass, with blowout_min_other_results = 1.
InvalidScoreRaisedWitness ==
    /\ pc = "raised"
    /\ max_iters >= 1
    /\ blowout_min_other_results = 1
    /\ season_end >= season_start
    /\ Len(games) = 3
    /\ ~HasTie(games)
    /\ ~HasInvalidScore(SubSeq(games, 1, 2))
    /\ games[3].score_b < 0
    /\ games[3].team_a \in {games[1].team_a, games[1].team_b}
    /\ err = ValueError("loser_score", "must be >= 0")


-----------------------------------------------------------------------------
(* usau_ingest.py: _get_with_retries *)

MaxAttempts == 3

\* What attempt number k does: session.get and raise_for_status succeed
\* ("ok"), one of them raises an Exception ("error"), or a BaseException
\* that is no Exception, such as KeyboardInterrupt, arrives ("interrupt").
Outcomes == {"ok", "error", "interrupt"}

\* The exception attempt number k raises.
AttemptError(k) ==
    [type |-> "RequestException", name |-> "attempt", text |-> ToString(k)]

KeyboardInterrupt == [type |-> "KeyboardInterrupt", name |-> "", text |-> ""]

\* Line 150 with last_exc None.
AssertionError == [type |-> "AssertionError", name |-> "", text |-> ""]

\* Line 151 with last_exc None, when python -O has removed the assertion.
RaiseNoneError ==
    TypeError("exceptions", "must derive from BaseException")

\* Line 136: 0.75, in hundredths of a second.
backoff_seconds == 75

IsLastAttempt(attempt, max_attempts) == attempt = max_attempts

\* optimized: the interpreter runs with -O.
RetryInit ==
    /\ \E m \in -1..MaxAttempts, o \in [1..MaxAttempts -> Outcomes],
          opt \in BOOLEAN :
          call = [fn |-> "_get_with_retries", max_attempts |-> m,
                  outcomes |-> o, optimized |-> opt]
    /\ retry = NoRetry
    /\ games = <<>>
    /\ season_start = 0
    /\ season_end = 0
    /\ convergence_threshold = 0
    /\ max_iters = 0
    /\ blowout_min_other_results = 0
    /\ teams = {}
    /\ ratings = <<>>
    /\ ignored_games = {}
    /\ max_change = 0
    /\ iters = 0
    /\ pc = "attempt"
    /\ err = NoError
    /\ result = <<>>

\* The attempt the for loop of line 138 makes next.
NextAttempt == retry.attempt + 1

\* Lines 138-142: the attempt succeeds and its response is returned.
AttemptReturns ==
    /\ pc = "attempt"
    /\ NextAttempt <= call.max_attempts
    /\ call.outcomes[NextAttempt] = "ok"
    /\ retry' = [retry EXCEPT !.attempt = NextAttempt]
    /\ result' = [response |-> NextAttempt]
    /\ pc' = "done"
    /\ UNCHANGED <<call, inputs, teams, ratings, ignored_games, max_change,
                   iters, err>>

\* Lines 138-147: the attempt fails, is not the last, and the loop sleeps.
AttemptFailsSleeps ==
    /\ pc = "attempt"
    /\ NextAttempt <= call.max_attempts
    /\ call.outcomes[NextAttempt] = "error"
    /\ ~IsLastAttempt(NextAttempt, call.max_attempts)
    /\ retry' = [attempt |-> NextAttempt,
                 last_exc |-> AttemptError(NextAttempt),
                 slept |-> Append(retry.slept, backoff_seconds * NextAttempt)]
    /\ UNCHANGED <<call, inputs, teams, ratings, ignored_games, max_change,
                   iters, pc, err, result>>

\* Lines 138-146: the last attempt fails and its exception is re-raised.
AttemptFailsRaises ==
    /\ pc = "attempt"
    /\ NextAttempt <= call.max_attempts
    /\ call.outcomes[NextAttempt] = "error"
    /\ IsLastAttempt(NextAttempt, call.max_attempts)
    /\ retry' = [retry EXCEPT !.attempt = NextAttempt,
                              !.last_exc = AttemptError(NextAttempt)]
    /\ err' = AttemptError(NextAttempt)
    /\ pc' = "raised"
    /\ UNCHANGED <<call, inputs, teams, ratings, ignored_games, max_change,
                   iters, result>>

\* Lines 140-143: `except Exception` does not catch the exception.
AttemptInterrupted ==
    /\ pc = "attempt"
    /\ NextAttempt <= call.max_attempts
    /\ call.outcomes[NextAttempt] = "interrupt"
    /\ retry' = [retry EXCEPT !.attempt = NextAttempt]
    /\ err' = KeyboardInterrupt
    /\ pc' = "raised"
    /\ UNCHANGED <<call, inputs, teams, ratings, ignored_games, max_change,
                   iters, result>>

\* Lines 149-151: range(1, max_attempts + 1) is exhausted.
AfterLoop ==
    /\ pc = "attempt"
    /\ NextAttempt > call.max_attempts
    /\ err' = IF retry.last_exc # NoError THEN retry.last_exc
              ELSE IF call.optimized THEN RaiseNoneError
              ELSE AssertionError
    /\ pc' = "after_loop_raised"
    /\ UNCHANGED <<call, retry, inputs, teams, ratings, ignored_games,
                   max_change, iters, result>>

RetryNext ==
    \/ AttemptReturns
    \/ AttemptFailsSleeps
    \/ AttemptFailsRaises
    \/ AttemptInterrupted
    \/ AfterLoop

RetrySpec == RetryInit /\ [][RetryNext]_vars

\* No attempt the call can make is interrupted.
NoInterrupt ==
    \A k \in 1..MaxAttempts :
        k <= call.max_attempts => call.outcomes[k] # "interrupt"

\* C24: attempt k + 1 is made only after attempt k failed; at most
\* max_attempts requests are made; the call ends by returning the first
\* successful response, with no request and no sleep after it, or by
\* re-raising the exception of attempt number max_attempts, with no sleep
\* after it; whatever max_attempts is, the statements after the loop are
\* not reached.
RetryContract ==
    /\ [](NoInterrupt => retry.attempt <= Max2(call.max_attempts, 0))
    /\ [](NoInterrupt =>
            \A k \in 1..retry.attempt :
                (k < retry.attempt \/ pc = "attempt") =>
                    call.outcomes[k] = "error")
    /\ []((NoInterrupt /\ pc = "done") =>
            /\ result = [response |-> retry.attempt]
            /\ call.outcomes[retry.attempt] = "ok"
            /\ Len(retry.slept) = retry.attempt - 1)
    /\ []((NoInterrupt /\ pc = "raised") =>
            /\ retry.attempt = call.max_attempts
            /\ err = AttemptError(call.max_attempts)
            /\ Len(retry.slept) = call.max_attempts - 1)
    /\ [](NoInterrupt =>
            \A i \in 1..Len(retry.slept) :
                retry.slept[i] = backoff_seconds * i)
    /\ [](NoInterrupt => pc # "after_loop_raised")
    /\ [][pc = "attempt" /\ pc' = "attempt" =>
            Len(retry'.slept) = Len(retry.slept) + 1]_vars
    /\ [][pc # "attempt" => UNCHANGED vars]_vars

====
